---- MODULE Spec2Model ----
(***************************************************************************)
(* tinystat: summaries of samples and the two-sample t-test comparison.    *)
(*                                                                         *)
(* float64 values are modelled exactly.  A value is NaN, +Inf, -Inf or a   *)
(* finite number of the form  c + sg * sqrt(q)  with c, q rational,        *)
(* q >= 0 not the square of a rational unless sg = 0, and sg in -1..1.     *)
(* Every quantity Compare computes has that form when the degrees of       *)
(* freedom are 2, where the Student's t quantile and CDF have the closed   *)
(* forms the distribution library itself uses.  Negative zero is not       *)
(* distinguished from zero.  The unit normal quantile and CDF have no      *)
(* closed form: the power Compare derives from them is kept as the term    *)
(* that denotes it, CDF(hi) - CDF(lo).                                     *)
(***************************************************************************)
EXTENDS Integers, Sequences, FiniteSets, TLC

(***************************************************************************)
(* Rationals: [n |-> numerator, d |-> denominator > 0], in lowest terms.   *)
(***************************************************************************)
RECURSIVE GCD(_, _)
GCD(a, b) ==
    IF b = 0 THEN a ELSE GCD(b, a % b)

IAbs(x) ==
    IF x < 0 THEN -x ELSE x

Rat(n, d) ==
    LET g == GCD(IAbs(n), IAbs(d))
        s == IF d < 0 THEN -1 ELSE 1
    IN  [n |-> s * (n \div g), d |-> s * (d \div g)]

RInt(i) ==
    [n |-> i, d |-> 1]

RAdd(x, y) ==
    Rat(x.n * y.d + y.n * x.d, x.d * y.d)

RNeg(x) ==
    [n |-> -x.n, d |-> x.d]

RSub(x, y) ==
    RAdd(x, RNeg(y))

RMul(x, y) ==
    Rat(x.n * y.n, x.d * y.d)

RInv(x) ==
    Rat(x.d, x.n)

RLt(x, y) ==
    x.n * y.d < y.n * x.d

RSign(x) ==
    IF x.n > 0 THEN 1 ELSE IF x.n < 0 THEN -1 ELSE 0

\* the integer square root, by bisection: lo * lo <= n < hi * hi
RECURSIVE ISqrtBetween(_, _, _)
ISqrtBetween(n, lo, hi) ==
    IF hi - lo <= 1 THEN lo
    ELSE LET mid == (lo + hi) \div 2
         IN  IF mid * mid <= n THEN ISqrtBetween(n, mid, hi)
             ELSE ISqrtBetween(n, lo, mid)

ISqrt(n) ==
    ISqrtBetween(n, 0, IF n < 46340 THEN n + 1 ELSE 46341)

(***************************************************************************)
(* float64 values.                                                         *)
(***************************************************************************)
NaN ==
    [k |-> "nan"]

posInf ==
    [k |-> "inf", s |-> 1]

negInf ==
    [k |-> "inf", s |-> -1]

Inf(s) ==
    IF s > 0 THEN posInf ELSE negInf

\* the infinity of sign s; NaN when the sign is that of a zero
InfOrNaN(s) ==
    IF s = 0 THEN NaN ELSE Inf(s)

Zero ==
    RInt(0)

FRat(r) ==
    [k |-> "fin", c |-> r, sg |-> 0, q |-> Zero]

F(i) ==
    FRat(RInt(i))

FQ(n, d) ==
    FRat(Rat(n, d))

\* c + sg * sqrt(q) in the canonical form, given the integer square roots
\* rn and rd of the numerator and the denominator of q
FinRoot(c, sg, q, rn, rd) ==
    IF sg = 0 \/ q.n = 0 THEN FRat(c)
    ELSE IF rn * rn = q.n /\ rd * rd = q.d
         THEN FRat(RAdd(c, [n |-> sg * rn, d |-> rd]))
         ELSE [k |-> "fin", c |-> c, sg |-> sg, q |-> q]

\* c + sg * sqrt(q), brought to the canonical form
Fin(c, sg, q) ==
    FinRoot(c, sg, q, ISqrt(q.n), ISqrt(q.d))

\* c + s.sg * sqrt(s.q)
FinOf(c, s) ==
    Fin(c, s.sg, s.q)

IsNaN(x) ==
    x.k = "nan"

IsFin(x) ==
    x.k = "fin"

IsZero(x) ==
    x.k = "fin" /\ x.sg = 0 /\ x.c.n = 0

\* the sign of  sg * sqrt(q) - sqrt(c2)
SignOfDifference(c2, sg, q) ==
    IF RLt(q, c2) THEN -sg ELSE IF q = c2 THEN 0 ELSE sg

\* the sign of  c + sg * sqrt(q)
SignSurd(c, sg, q) ==
    IF sg = 0 \/ q.n = 0 THEN RSign(c)
    ELSE IF c.n = 0 \/ RSign(c) = sg THEN sg
    ELSE SignOfDifference(RMul(c, c), sg, q)

\* the sign of a value that is not NaN
Sign(x) ==
    IF x.k = "inf" THEN x.s ELSE SignSurd(x.c, x.sg, x.q)

Neg(x) ==
    CASE x.k = "nan" -> NaN
      [] x.k = "inf" -> Inf(-x.s)
      [] x.k = "fin" -> [k |-> "fin", c |-> RNeg(x.c), sg |-> -x.sg, q |-> x.q]

\* the square root in the sum of two finite values: one of the two is
\* rational, or both have the same root
SurdOfSum(x, y) ==
    CASE y.sg = 0 -> [sg |-> x.sg, q |-> x.q]
      [] x.sg = 0 /\ y.sg # 0 -> [sg |-> y.sg, q |-> y.q]
      [] x.sg # 0 /\ y.sg # 0 /\ x.q = y.q ->
            IF x.sg = y.sg THEN [sg |-> x.sg, q |-> RMul(RInt(4), x.q)]
            ELSE [sg |-> 0, q |-> Zero]

Add(x, y) ==
    CASE x.k = "nan" \/ y.k = "nan" -> NaN
      [] x.k = "inf" /\ y.k = "inf" -> IF x.s = y.s THEN x ELSE NaN
      [] x.k = "inf" /\ y.k = "fin" -> x
      [] x.k = "fin" /\ y.k = "inf" -> y
      [] x.k = "fin" /\ y.k = "fin" -> FinOf(RAdd(x.c, y.c), SurdOfSum(x, y))

Sub(x, y) ==
    Add(x, Neg(y))

\* the square and the sign of the factor a finite value contributes to the
\* square root of a product
SquareIn(x) ==
    IF x.sg = 0 THEN RMul(x.c, x.c) ELSE x.q

SignIn(x) ==
    IF x.sg = 0 THEN RSign(x.c) ELSE x.sg

\* the product of two finite values: one of the two is rational, or both
\* are square roots
MulFin(x, y) ==
    CASE x.sg = 0 \/ y.sg = 0 \/ (x.c.n = 0 /\ y.c.n = 0) ->
            Fin(RMul(x.c, y.c),
                IF x.sg = 0 /\ y.sg = 0 THEN 0 ELSE SignIn(x) * SignIn(y),
                RMul(SquareIn(x), SquareIn(y)))

Mul(x, y) ==
    CASE x.k = "nan" \/ y.k = "nan" -> NaN
      [] x.k # "nan" /\ y.k # "nan" /\ (x.k = "inf" \/ y.k = "inf") ->
            InfOrNaN(Sign(x) * Sign(y))
      [] x.k = "fin" /\ y.k = "fin" -> MulFin(x, y)

\* 1 / y for a finite y that is not zero
Recip(y) ==
    CASE y.sg = 0 -> FRat(RInv(y.c))
      [] y.sg # 0 /\ y.c.n = 0 ->
            [k |-> "fin", c |-> Zero, sg |-> y.sg, q |-> RInv(y.q)]

Div(x, y) ==
    CASE x.k = "nan" \/ y.k = "nan" -> NaN
      [] x.k = "inf" /\ y.k = "inf" -> NaN
      [] x.k = "inf" /\ y.k = "fin" -> Inf(x.s * (IF Sign(y) < 0 THEN -1 ELSE 1))
      [] x.k = "fin" /\ y.k = "inf" -> F(0)
      [] x.k = "fin" /\ y.k = "fin" ->
            IF IsZero(y) THEN InfOrNaN(Sign(x)) ELSE MulFin(x, Recip(y))

\* the sign of  a * sqrt(qa) + b * sqrt(qb)
SignOfRoots(a, qa, b, qb) ==
    IF a = 0 \/ qa.n = 0 THEN (IF qb.n = 0 THEN 0 ELSE b)
    ELSE IF b = 0 \/ qb.n = 0 \/ a = b THEN a
    ELSE IF qa = qb THEN 0
    ELSE IF RLt(qb, qa) THEN a ELSE b

\* the sign of  c + r  for the signs sC of c and sS of r, and the sign d2 of
\* r * r - c * c
SignOfParts(sS, sC, d2) ==
    IF sS = 0 THEN sC
    ELSE IF sC = 0 \/ sC = sS THEN sS
    ELSE IF d2 > 0 THEN sS ELSE IF d2 < 0 THEN sC ELSE 0

\* the sign of  c + a * sqrt(qa) + b * sqrt(qb)  for a rational c
SignSum(c, a, qa, b, qb) ==
    SignOfParts(SignOfRoots(a, qa, b, qb), RSign(c),
                SignSurd(RSub(RAdd(qa, qb), RMul(c, c)), a * b,
                         RMul(RInt(4), RMul(qa, qb))))

\* x < y; false when either is NaN
Lt(x, y) ==
    CASE x.k = "nan" \/ y.k = "nan" -> FALSE
      [] x.k = "inf" /\ y.k = "inf" -> x.s < y.s
      [] x.k = "inf" /\ y.k = "fin" -> x.s < 0
      [] x.k = "fin" /\ y.k = "inf" -> y.s > 0
      [] x.k = "fin" /\ y.k = "fin" ->
            SignSum(RSub(x.c, y.c), x.sg, x.q, -y.sg, y.q) < 0

Gt(x, y) ==
    Lt(y, x)

\* x == y; false when either is NaN
Eq(x, y) ==
    x.k # "nan" /\ y.k # "nan" /\ x = y

Le(x, y) ==
    Lt(x, y) \/ Eq(x, y)

Ge(x, y) ==
    Le(y, x)

Abs(x) ==
    CASE x.k = "nan" -> NaN
      [] x.k = "inf" -> posInf
      [] x.k = "fin" -> IF Sign(x) < 0 THEN Neg(x) ELSE x

Sqrt(x) ==
    CASE x.k = "nan" -> NaN
      [] x.k = "inf" -> IF x.s > 0 THEN posInf ELSE NaN
      [] x.k = "fin" /\ x.sg = 0 ->
            IF x.c.n < 0 THEN NaN ELSE Fin(Zero, 1, x.c)

\* math.Pow(x, 2)
Pow2(x) ==
    Mul(x, x)

(***************************************************************************)
(* Summarize: Welford's single-pass mean and corrected variance.           *)
(***************************************************************************)
\* the second moment accumulated with the old mean on both sides
WelfordStepOldMean(acc, n, x) ==
    LET delta == Sub(x, acc.m)
        m     == Add(acc.m, Div(delta, F(n + 1)))
    IN  [m |-> m, m2 |-> Add(acc.m2, Mul(delta, delta))]

\* one iteration of the loop, for the value x at 0-based index n
WelfordStep(acc, n, x) ==
    LET delta == Sub(x, acc.m)
        m     == Add(acc.m, Div(delta, F(n + 1)))
    IN  [m |-> m, m2 |-> Add(acc.m2, Mul(delta, Sub(x, m)))]

RECURSIVE WelfordLoop(_, _, _)
WelfordLoop(data, n, acc) ==
    IF n >= Len(data) THEN acc
    ELSE WelfordLoop(data, n + 1, WelfordStep(acc, n, F(data[n + 1])))

\* the second moment divided by n instead of n - 1
SummarizeUncorrected(data) ==
    LET acc == WelfordLoop(data, 0, [m |-> F(0), m2 |-> F(0)])
    IN  [Mean     |-> acc.m,
         Variance |-> Div(acc.m2, F(Len(data))),
         N        |-> F(Len(data))]

Summarize(data) ==
    LET acc == WelfordLoop(data, 0, [m |-> F(0), m2 |-> F(0)])
    IN  [Mean     |-> acc.m,
         Variance |-> Div(acc.m2, F(Len(data) - 1)),
         N        |-> F(Len(data))]

(***************************************************************************)
(* The Student's t distribution with location 0 and scale 1.               *)
(***************************************************************************)
\* SmallestNonzeroFloat64: no positive value of the model is that small,
\* so x > min64 is x > 0 and x < min64 is x <= 0
AboveMin64(x) ==
    Gt(x, F(0))

BelowMin64(x) ==
    Le(x, F(0))

\* only an infinite value of the model exceeds 1e100
Above1e100(x) ==
    x.k = "inf" /\ x.s > 0

\* the value  y * betaContinuedFraction(a, b, x) / a  converges to: the
\* regularized incomplete beta function I_x(a, b), which is x^a for b = 1
\* and 1 - (1 - x)^b for a = 1
RegIncBeta(a, b, x) ==
    CASE a = FQ(1, 2) /\ b = F(1) -> Sqrt(x)
      [] a = F(1) /\ b = FQ(1, 2) -> Sub(F(1), Sqrt(Sub(F(1), x)))

\* UniformCDF(a, b)(x)
UniformCDF(a, b, x) ==
    IF Lt(x, a) THEN F(0)
    ELSE IF Gt(x, b) THEN F(1)
    ELSE Div(Sub(x, a), Sub(b, a))

BetaCDF(a, b, x) ==
    IF a = F(1) /\ b = F(1) THEN UniformCDF(F(0), F(1), x)
    ELSE IF Eq(x, F(0)) THEN F(0)
    ELSE IF Eq(x, F(1)) THEN F(1)
    ELSE IF Lt(x, Div(Add(a, F(1)), Add(Add(a, b), F(2))))
         THEN RegIncBeta(a, b, x)
         ELSE Sub(F(1), RegIncBeta(b, a, Sub(F(1), x)))

\* p, before it is halved, for nx = 1 + (x / nu) * x
StudentsTCDFTails(nu, x, nx) ==
    IF Above1e100(nx) THEN F(0)
    ELSE IF Gt(nu, Mul(x, x))
         THEN Sub(F(1), BetaCDF(FQ(1, 2), Div(nu, F(2)),
                                Div(Mul(x, x), Add(nu, Mul(x, x)))))
         ELSE BetaCDF(Div(nu, F(2)), FQ(1, 2), Div(F(1), nx))

\* the halved p, reflected for a positive x
StudentsTCDFSide(x, p) ==
    IF Gt(x, F(0)) THEN Sub(F(1), p) ELSE p

\* the CDF at x for nu degrees of freedom, nu and x not NaN
StudentsTCDF(nu, x) ==
    IF Le(nu, F(0)) THEN NaN
    ELSE StudentsTCDFSide(x,
            Div(StudentsTCDFTails(nu, x, Add(F(1), Mul(Div(x, nu), x))),
                F(2)))

\* the variant that leaves q as it is for the lower half
StudentsTQtlSideNotNegated(neg, q) ==
    IF neg THEN q ELSE q

\* q, negated for the lower half
StudentsTQtlSide(neg, q) ==
    IF neg THEN Neg(q) ELSE q

\* the quantile for the doubled tail probability p; of the branches on nu
\* only the closed form for nu = 2 is in the model
StudentsTQtlTail(nu, neg, p) ==
    CASE nu = F(2) ->
            IF AboveMin64(p)
            THEN StudentsTQtlSide(neg,
                    IF BelowMin64(Mul(F(3), p)) THEN Div(F(1), Sqrt(p))
                    ELSE IF Gt(p, FQ(9, 10))
                         THEN Mul(Sub(F(1), p),
                                  Sqrt(Div(F(2), Mul(p, Sub(F(2), p)))))
                         ELSE Sqrt(Sub(Div(F(2), Mul(p, Sub(F(2), p))), F(2))))
            ELSE posInf

\* the quantile at p for nu degrees of freedom, nu and p not NaN
StudentsTQtl(nu, p) ==
    IF Le(nu, F(0)) \/ Lt(p, F(0)) \/ Gt(p, F(1)) THEN NaN
    ELSE StudentsTQtlTail(nu, Lt(p, FQ(1, 2)),
            IF Lt(p, FQ(1, 2)) THEN Mul(F(2), p)
            ELSE Mul(F(2), Add(Sub(FQ(1, 2), p), FQ(1, 2))))

\* distuv.StudentsT{Mu: 0, Sigma: 1, Nu: nu}.Quantile(p); float64 arithmetic
\* on NaN degrees of freedom yields NaN
Quantile(nu, p) ==
    IF IsNaN(nu) \/ IsNaN(p) THEN NaN ELSE StudentsTQtl(nu, p)

\* distuv.StudentsT{Mu: 0, Sigma: 1, Nu: nu}.CDF(x)
CDF(nu, x) ==
    IF IsNaN(nu) \/ IsNaN(x) THEN NaN ELSE StudentsTCDF(nu, x)

\* the degrees of freedom for which the quantile and the CDF are modelled
NuModelled(nu) ==
    IsNaN(nu) \/ Le(nu, F(0)) \/ nu = F(2)

(***************************************************************************)
(* Compare: the two-tailed Welch's t-test.                                 *)
(***************************************************************************)
tails ==
    2
\* the confidence taken as a fraction instead of a percentage
AlphaOfFraction(confidence) ==
    Sub(F(1), confidence)

\* the confidence level taken for the significance level
AlphaOfConfidence(confidence) ==
    Div(confidence, F(100))

\* the significance level
Alpha(confidence) ==
    Sub(F(1), Div(confidence, F(100)))

\* the sample sizes not squared in the denominator
WelchNuSizesNotSquared(a, b) ==
    Div(Pow2(Add(Div(a.Variance, a.N), Div(b.Variance, b.N))),
        Add(Div(Pow2(a.Variance), Mul(a.N, Sub(a.N, F(1)))),
            Div(Pow2(b.Variance), Mul(b.N, Sub(b.N, F(1))))))

\* the variances not divided by the sample sizes in the numerator
WelchNuOfVariances(a, b) ==
    Div(Pow2(Add(a.Variance, b.Variance)),
        Add(Div(Pow2(a.Variance), Mul(Pow2(a.N), Sub(a.N, F(1)))),
            Div(Pow2(b.Variance), Mul(Pow2(b.N), Sub(b.N, F(1))))))

\* the Welch-Satterthwaite degrees of freedom
WelchNu(a, b) ==
    Div(Pow2(Add(Div(a.Variance, a.N), Div(b.Variance, b.N))),
        Add(Div(Pow2(a.Variance), Mul(Pow2(a.N), Sub(a.N, F(1)))),
            Div(Pow2(b.Variance), Mul(Pow2(b.N), Sub(b.N, F(1))))))
\* the means added instead of subtracted
EffectOfSum(a, b) ==
    Abs(Add(a.Mean, b.Mean))

\* the absolute difference between the means of the two samples
Effect(a, b) ==
    Abs(Sub(a.Mean, b.Mean))
\* both variances divided by the size of the control
StdErrControlN(a, b) ==
    Sqrt(Add(Div(a.Variance, a.N), Div(b.Variance, a.N)))

\* the standard error
StdErr(a, b) ==
    Sqrt(Add(Div(a.Variance, a.N), Div(b.Variance, b.N)))

\* the p-value given the experimental t-value
PValue(nu, tExp) ==
    Mul(CDF(nu, Neg(tExp)), F(tails))

\* Cohen's d, with the standard deviation from the mean variance
EffectSize(a, b, d) ==
    Div(d, Sqrt(Div(Add(a.Variance, b.Variance), F(2))))

\* stdNormal.Quantile(p): 0 at 1/2, +Inf at 1 and, having no closed form
\* elsewhere, the term that denotes it
UnitNormalQuantile(p) ==
    CASE p = FQ(1, 2) -> F(0)
      [] p = F(1) -> posInf
      [] OTHER -> [k |-> "quantile", p |-> p]

\* x - za: a term when za is one
Shifted(x, za) ==
    IF za.k = "quantile"
    THEN IF x.k = "fin" THEN [k |-> "shifted", x |-> x, za |-> za] ELSE x
    ELSE Sub(x, za)

\* stdNormal.CDF(hi) - stdNormal.CDF(lo), kept as the term that denotes it
UnitNormalCDFDifference(hi, lo) ==
    IF hi.k = "nan" \/ lo.k = "nan" THEN NaN
    ELSE [k |-> "cdfdiff", hi |-> hi, lo |-> lo]

\* beta for the values z and za
BetaOf(z, za) ==
    UnitNormalCDFDifference(Shifted(z, za), Shifted(Neg(z), za))

\* the statistical power
Beta(a, b, d, alpha) ==
    BetaOf(Div(d, Mul(Sqrt(Div(Add(a.Variance, b.Variance), F(2))),
                      Sqrt(Add(Div(F(1), a.N), Div(F(1), b.N))))),
           UnitNormalQuantile(Sub(F(1), Div(alpha, F(tails)))))

Compare(control, experiment, confidence) ==
    LET a     == control
        b     == experiment
        alpha == Alpha(confidence)
        nu    == WelchNu(a, b)
        tHyp  == Quantile(nu, Sub(F(1), Div(alpha, F(tails))))
        d     == Effect(a, b)
        s     == StdErr(a, b)
        tExp  == Div(d, s)
        p     == PValue(nu, tExp)
        cv    == Mul(tHyp, s)
    IN  [Effect        |-> d,
         CriticalValue |-> cv,
         EffectSize    |-> EffectSize(a, b, d),
         PValue        |-> p,
         Alpha         |-> alpha,
         Beta          |-> Beta(a, b, d, alpha)]

\* not (effect <= critical value): true for a NaN critical value
SignificantNotLe(d) ==
    ~Le(d.Effect, d.CriticalValue)

\* effect >= critical value
SignificantOrEqual(d) ==
    Ge(d.Effect, d.CriticalValue)


Significant(d) ==
    Gt(d.Effect, d.CriticalValue)

(***************************************************************************)
(* Compare as it computes the p-value from the t-value of the confidence   *)
(* level, with the relative fields.                                        *)
(***************************************************************************)
PValueOfT(nu, t) ==
    Mul(CDF(nu, Neg(t)), F(tails))

CompareP(control, experiment, confidence) ==
    LET a  == control
        b  == experiment
        nu == WelchNu(a, b)
        t  == Quantile(nu, Sub(F(1), Div(Sub(F(1), Div(confidence, F(100))),
                                         F(tails))))
        p  == PValueOfT(nu, t)
        d  == Abs(Sub(a.Mean, b.Mean))
        s  == Sqrt(Add(Div(a.Variance, a.N), Div(b.Variance, b.N)))
        cv == Mul(t, s)
        cd == Div(d, Sqrt(Div(Add(a.Variance, b.Variance), F(2))))
    IN  [Delta            |-> d,
         CriticalValue    |-> cv,
         RelDelta         |-> Div(d, control.Mean),
         RelCriticalValue |-> Div(cv, control.Mean),
         PValue           |-> p,
         EffectSize       |-> cd]

SignificantP(d) ==
    Gt(d.Delta, d.CriticalValue)

(***************************************************************************)
(* Compare: the two-tailed Student's t-test with pooled variance.          *)
(***************************************************************************)
\* one degree of freedom too many
StudentNuMinusOne(a, b) ==
    Sub(Add(a.N, b.N), F(1))

StudentNu(a, b) ==
    Sub(Add(a.N, b.N), F(2))

\* the relative fields taken against the mean of the experiment
CompareStudentRelativeToExperiment(control, experiment, confidence) ==
    LET a  == control
        b  == experiment
        nu == StudentNu(a, b)
        t  == Quantile(nu, Sub(F(1), Div(Sub(F(1), Div(confidence, F(100))),
                                         F(2))))
        s  == Sqrt(Div(Add(Mul(Sub(a.N, F(1)), a.Variance),
                           Mul(Sub(b.N, F(1)), b.Variance)),
                       Sub(Add(a.N, b.N), F(2))))
        d  == Abs(Sub(a.Mean, b.Mean))
        e  == Mul(Mul(t, s), Sqrt(Add(Div(F(1), a.N), Div(F(1), b.N))))
    IN  [Delta    |-> d,
         Error    |-> e,
         RelDelta |-> Div(d, experiment.Mean),
         RelError |-> Div(e, experiment.Mean),
         StdDev   |-> s]

CompareStudent(control, experiment, confidence) ==
    LET a  == control
        b  == experiment
        nu == StudentNu(a, b)
        t  == Quantile(nu, Sub(F(1), Div(Sub(F(1), Div(confidence, F(100))),
                                         F(2))))
        s  == Sqrt(Div(Add(Mul(Sub(a.N, F(1)), a.Variance),
                           Mul(Sub(b.N, F(1)), b.Variance)),
                       Sub(Add(a.N, b.N), F(2))))
        d  == Abs(Sub(a.Mean, b.Mean))
        e  == Mul(Mul(t, s), Sqrt(Add(Div(F(1), a.N), Div(F(1), b.N))))
    IN  [Delta    |-> d,
         Error    |-> e,
         RelDelta |-> Div(d, control.Mean),
         RelError |-> Div(e, control.Mean),
         StdDev   |-> s]

SignificantStudent(d) ==
    Gt(d.Delta, d.Error)

(***************************************************************************)
(* The run of one comparison: the measurements of the control and of the   *)
(* experiment are summarized, control first, and the two summaries are     *)
(* compared at the confidence level; the caller then asks the Difference   *)
(* whether it is significant.  diff.impl names the Compare that ran: the   *)
(* Welch test with the p-value of the observed t ("welch"), the Welch test *)
(* with the p-value of the confidence level's t ("welchP"), or the pooled  *)
(* Student test ("student").                                               *)
(***************************************************************************)
VARIABLES controlData, experimentData, confidence, control, experiment, diff,
          significant, pc, calls, dist, cmd

vars ==
    <<controlData, experimentData, confidence, control, experiment, diff,
      significant, pc, calls, dist, cmd>>

MaxLen ==
    3

\* the measurements of the control and of the experiment
ControlValues ==
    {0, 4}

ExperimentValues ==
    {0, 3, 4, 7}

Samples(values) ==
    UNION {[1..n -> values] : n \in 0..MaxLen}

\* the confidence levels, in percent
Confidences ==
    {0, 50, 60, 80, 95, 100}

\* Summary{}
ZeroSummary ==
    [Mean |-> F(0), Variance |-> F(0), N |-> F(0)]

NoDiff ==
    [impl |-> "none"]

\* no call of a distribution function is in progress
NoCall ==
    [fn |-> "none"]

\* the command is not running
NoCommand ==
    [status |-> "none"]

Init ==
    /\ controlData \in Samples(ControlValues)
    /\ experimentData \in Samples(ExperimentValues)
    /\ confidence \in Confidences
    /\ control = ZeroSummary
    /\ experiment = ZeroSummary
    /\ diff = NoDiff
    /\ significant = FALSE
    /\ calls = << >>
    /\ dist = NoCall
    /\ cmd = NoCommand
    /\ pc = "read"

\* the variant that shifts the measurements by the first one in place
\* before it summarizes them
SummarizeControlInPlace ==
    /\ pc = "read"
    /\ control' = Summarize(controlData)
    /\ controlData' = [i \in DOMAIN controlData |->
                          controlData[i] - controlData[1]]
    /\ pc' = "control"
    /\ UNCHANGED <<experimentData, confidence, experiment, diff,
                   significant, calls, dist, cmd>>

SummarizeControl ==
    /\ pc = "read"
    /\ control' = Summarize(controlData)
    /\ pc' = "control"
    /\ UNCHANGED <<controlData, experimentData, confidence, experiment, diff,
                   significant, calls, dist, cmd>>

SummarizeExperiment ==
    /\ pc = "control"
    /\ experiment' = Summarize(experimentData)
    /\ pc' = "experiment"
    /\ UNCHANGED <<controlData, experimentData, confidence, control, diff,
                   significant, calls, dist, cmd>>

DoCompare ==
    /\ pc = "experiment"
    /\ NuModelled(WelchNu(control, experiment))
    /\ diff' = [impl |-> "welch", d |-> Compare(control, experiment, F(confidence))]
    /\ pc' = "compared"
    /\ UNCHANGED <<controlData, experimentData, confidence, control, experiment,
                   significant, calls, dist, cmd>>

DoCompareP ==
    /\ pc = "experiment"
    /\ NuModelled(WelchNu(control, experiment))
    /\ diff' = [impl |-> "welchP", d |-> CompareP(control, experiment, F(confidence))]
    /\ pc' = "compared"
    /\ UNCHANGED <<controlData, experimentData, confidence, control, experiment,
                   significant, calls, dist, cmd>>

DoCompareStudent ==
    /\ pc = "experiment"
    /\ NuModelled(StudentNu(control, experiment))
    /\ diff' = [impl |-> "student", d |-> CompareStudent(control, experiment, F(confidence))]
    /\ pc' = "compared"
    /\ UNCHANGED <<controlData, experimentData, confidence, control, experiment,
                   significant, calls, dist, cmd>>

\* d.Significant()
AskSignificant ==
    /\ pc = "compared"
    /\ significant' = CASE diff.impl = "welch" -> Significant(diff.d)
                         [] diff.impl = "welchP" -> SignificantP(diff.d)
                         [] diff.impl = "student" -> SignificantStudent(diff.d)
    /\ pc' = "done"
    /\ UNCHANGED <<controlData, experimentData, confidence, control, experiment,
                   diff, calls, dist, cmd>>

Next ==
    \/ SummarizeControl
    \/ SummarizeExperiment
    \/ DoCompare
    \/ DoCompareP
    \/ DoCompareStudent
    \/ AskSignificant

Spec ==
    Init /\ [][Next]_vars

(***************************************************************************)
(* Concurrent calls of Compare.  The calls share the control Summary of    *)
(* printComparison and each compares its own experiment against it.        *)
(* Compare takes its Summaries by value: a call reads the shared control   *)
(* once, when it copies it into its parameter, and works on its locals     *)
(* from then on.  A call advances one group of statements at a time, so    *)
(* the calls interleave between any two groups.                            *)
(***************************************************************************)
NumCalls ==
    2

Procs ==
    1..NumCalls

\* the measurements behind the shared control and behind the experiments
SharedControls ==
    {<<0, 4>>, <<4, 0>>, <<0, 0>>}

CallExperiments ==
    {<<0, 4>>, <<3, 7>>, <<4, 4>>, <<7>>}

CallConfidences ==
    {60, 95}

\* a call that has not started: no local holds a value yet
IdleCall ==
    [pc |-> "idle", experiment |-> ZeroSummary, a |-> ZeroSummary,
     b |-> ZeroSummary, alpha |-> F(0), nu |-> F(0), tHyp |-> F(0),
     d |-> F(0), s |-> F(0), tExp |-> F(0), p |-> F(0), cv |-> F(0),
     cd |-> F(0), beta |-> F(0), result |-> NoDiff]

InitConcurrent ==
    /\ controlData \in SharedControls
    /\ experimentData = << >>
    /\ confidence \in CallConfidences
    /\ control = Summarize(controlData)
    /\ experiment = ZeroSummary
    /\ diff = NoDiff
    /\ significant = FALSE
    /\ calls = [i \in Procs |-> IdleCall]
    /\ dist = NoCall
    /\ cmd = NoCommand
    /\ pc = "concurrent"

\* the locals of the call at pc, replaced by those of step
Advance(i, to, step) ==
    calls' = [calls EXCEPT ![i] = [f \in DOMAIN @ |->
                 IF f = "pc" THEN to
                 ELSE IF f \in DOMAIN step THEN step[f] ELSE @[f]]]

\* tinystat.Compare(control, experiment, confidence): the arguments are
\* copied into a and b; alpha and nu are computed
CallCompare(i) ==
    /\ pc = "concurrent"
    /\ calls[i].pc = "idle"
    /\ \E data \in CallExperiments :
          /\ NuModelled(WelchNu(control, Summarize(data)))
          /\ Advance(i, "called",
                [experiment |-> Summarize(data),
                 a          |-> control,
                 b          |-> Summarize(data),
                 alpha      |-> Alpha(F(confidence)),
                 nu         |-> WelchNu(control, Summarize(data))])
    /\ UNCHANGED <<controlData, experimentData, confidence, control,
                   experiment, diff, significant, pc, dist, cmd>>

\* tHyp, d and s
Hypothetical(i) ==
    /\ calls[i].pc = "called"
    /\ Advance(i, "hypothetical",
          [tHyp |-> Quantile(calls[i].nu,
                             Sub(F(1), Div(calls[i].alpha, F(tails)))),
           d    |-> Effect(calls[i].a, calls[i].b),
           s    |-> StdErr(calls[i].a, calls[i].b)])
    /\ UNCHANGED <<controlData, experimentData, confidence, control,
                   experiment, diff, significant, pc, dist, cmd>>

\* the variant that centres the shared control on the experiment before it
\* takes the difference of the means
ExperimentalInPlace(i) ==
    /\ calls[i].pc = "hypothetical"
    /\ Advance(i, "experimental",
          [tExp |-> Div(calls[i].d, calls[i].s),
           p    |-> PValue(calls[i].nu, Div(calls[i].d, calls[i].s)),
           cv   |-> Mul(calls[i].tHyp, calls[i].s)])
    /\ control' = [control EXCEPT !.Mean = Sub(@, calls[i].b.Mean)]
    /\ UNCHANGED <<controlData, experimentData, confidence,
                   experiment, diff, significant, pc, dist, cmd>>

\* tExp, p and cv
Experimental(i) ==
    /\ calls[i].pc = "hypothetical"
    /\ Advance(i, "experimental",
          [tExp |-> Div(calls[i].d, calls[i].s),
           p    |-> PValue(calls[i].nu, Div(calls[i].d, calls[i].s)),
           cv   |-> Mul(calls[i].tHyp, calls[i].s)])
    /\ UNCHANGED <<controlData, experimentData, confidence, control,
                   experiment, diff, significant, pc, dist, cmd>>

\* sd, cd, z, za and beta
Power(i) ==
    /\ calls[i].pc = "experimental"
    /\ Advance(i, "power",
          [cd   |-> EffectSize(calls[i].a, calls[i].b, calls[i].d),
           beta |-> Beta(calls[i].a, calls[i].b, calls[i].d, calls[i].alpha)])
    /\ UNCHANGED <<controlData, experimentData, confidence, control,
                   experiment, diff, significant, pc, dist, cmd>>

\* return Difference{...}
ReturnCompare(i) ==
    /\ calls[i].pc = "power"
    /\ Advance(i, "returned",
          [result |-> [Effect        |-> calls[i].d,
                       CriticalValue |-> calls[i].cv,
                       EffectSize    |-> calls[i].cd,
                       PValue        |-> calls[i].p,
                       Alpha         |-> calls[i].alpha,
                       Beta          |-> calls[i].beta]])
    /\ UNCHANGED <<controlData, experimentData, confidence, control,
                   experiment, diff, significant, pc, dist, cmd>>

NextConcurrent ==
    \E i \in Procs :
        \/ CallCompare(i)
        \/ Hypothetical(i)
        \/ Experimental(i)
        \/ Power(i)
        \/ ReturnCompare(i)

SpecConcurrent ==
    InitConcurrent /\ [][NextConcurrent]_vars

(***************************************************************************)
(* Calls of the distribution functions, with their loops.  One call runs   *)
(* from "call" to "returned" or "panicked"; the loop of the continued      *)
(* fraction ("cf"), of the bisection ("bisect") and of the refinement of   *)
(* the quantile ("refine") advance one iteration at a time.  What float64  *)
(* arithmetic the model does not compute exactly decides an iteration by   *)
(* a choice: whether the continued fraction has converged, and what the    *)
(* refinement finds at q.  A continued fraction that converges yields the  *)
(* value the closed forms above give.                                      *)
(***************************************************************************)
\* maxIter of betaContinuedFraction, 1000000000 in the source, scaled down:
\* the loop runs from 1 to maxIter and panics past it
maxIter ==
    4

\* precision of BetaQtl, 1e-9
precision ==
    [n |-> 1, d |-> 1000000000]

\* the iterations of the refinement of StudentsTQtl: it < 10
refinements ==
    10

\* the shapes, the degrees of freedom, and the arguments x and p
Shapes ==
    {F(-1), FQ(1, 2), F(1), F(2)}

Freedoms ==
    {F(-1), F(0), F(2), F(3)}

Points ==
    {FQ(-1, 2), F(0), FQ(1, 4), FQ(1, 2), FQ(3, 4), F(1), FQ(3, 2)}

\* the probabilities of the quantile: the points, and three that the
\* branches of the closed form for nu = 2 tell apart
Probabilities ==
    Points \cup {FQ(1, 10), FQ(21, 40), FQ(19, 20)}

TValues ==
    {F(-1), F(0), F(1), F(2)}

NoValue ==
    [k |-> "none"]

NoArgs ==
    [fn |-> "none"]

\* the call fn(alpha, beta)(x) or fn(nu)(x), before its first statement
NewCall(fn, alpha, beta, nu, x) ==
    [fn |-> fn, alpha |-> alpha, beta |-> beta, nu |-> nu, x |-> x,
     pc |-> "call", cf |-> NoArgs, i |-> 0,
     a |-> [n |-> 0, d |-> 1], b |-> [n |-> 1, d |-> 1],
     mid |-> [n |-> 0, d |-> 1],
     it |-> 0, within |-> FALSE, out |-> NoValue]

\* the arguments for which the value of a converged continued fraction is
\* in the model
BetaCDFModelled(a, b, x) ==
    \/ a = F(1) /\ b = F(1)
    \/ /\ Gt(a, F(0)) /\ Gt(b, F(0))
       /\ \/ x \in {F(0), F(1)}
          \/ /\ Gt(x, F(0)) /\ Lt(x, F(1))
             /\ <<a, b>> \in {<<FQ(1, 2), F(1)>>, <<F(1), FQ(1, 2)>>}

\* the shapes for which iBr is in the model
BetaQtlModelled(a, b) ==
    <<a, b>> \in {<<F(1), F(1)>>, <<FQ(1, 2), F(1)>>}

DistCalls ==
    {NewCall("BetaCDF", a, b, F(0), x) : a, b \in Shapes, x \in Points}
    \cup {NewCall("BetaQtl", a, b, F(0), p) : a, b \in Shapes, p \in Points}
    \cup {NewCall("StudentsTCDF", F(0), F(0), nu, x) :
             nu \in Freedoms, x \in TValues}
    \cup {NewCall("StudentsTQtl", F(0), F(0), nu, p) :
             nu \in Freedoms, p \in Probabilities}

\* the calls that the model follows to their end
Modelled(call) ==
    CASE call.fn = "BetaCDF" ->
            BetaCDFModelled(call.alpha, call.beta, call.x)
      [] call.fn = "BetaQtl" ->
            \/ Lt(call.x, F(0)) \/ Gt(call.x, F(1))
            \/ Lt(call.alpha, F(0)) \/ Lt(call.beta, F(0))
            \/ BetaQtlModelled(call.alpha, call.beta)
      [] call.fn = "StudentsTCDF" -> NuModelled(call.nu)
      [] call.fn = "StudentsTQtl" ->
            \/ Le(call.nu, F(0)) \/ Lt(call.x, F(0)) \/ Gt(call.x, F(1))
            \/ NuModelled(call.nu) \/ call.nu = F(3)

InitDistribution ==
    /\ controlData = << >>
    /\ experimentData = << >>
    /\ confidence = 0
    /\ control = ZeroSummary
    /\ experiment = ZeroSummary
    /\ diff = NoDiff
    /\ significant = FALSE
    /\ calls = << >>
    /\ cmd = NoCommand
    /\ pc = "distribution"
    /\ dist \in {call \in DistCalls : Modelled(call)}

\* return out
Return(out) ==
    dist' = [dist EXCEPT !.pc = "returned", !.out = out]

\* the variant that switches to the symmetry at (a + 1) / (a + b + 1)
ContinuedFractionSwitchesLate(a, b, x) ==
    IF (a = F(1) /\ b = F(1)) \/ Eq(x, F(0)) \/ Eq(x, F(1)) THEN << >>
    ELSE IF Lt(x, Div(Add(a, F(1)), Add(Add(a, b), F(1))))
         THEN <<[fn |-> "direct", alpha |-> a, beta |-> b, x |-> x]>>
         ELSE <<[fn |-> "symmetry", alpha |-> b, beta |-> a,
                 x |-> Sub(F(1), x)]>>

\* the arguments of the one call of betaContinuedFraction that
\* BetaCDF(a, b)(x) makes, if it makes one
ContinuedFraction(a, b, x) ==
    IF (a = F(1) /\ b = F(1)) \/ Eq(x, F(0)) \/ Eq(x, F(1)) THEN << >>
    ELSE IF Lt(x, Div(Add(a, F(1)), Add(Add(a, b), F(2))))
         THEN <<[fn |-> "direct", alpha |-> a, beta |-> b, x |-> x]>>
         ELSE <<[fn |-> "symmetry", alpha |-> b, beta |-> a,
                 x |-> Sub(F(1), x)]>>

\* out is returned when no continued fraction is called; a call of one
\* starts its loop at i = 1
ReturnOrIterate(c, out) ==
    IF c = << >> THEN Return(out)
    ELSE dist' = [dist EXCEPT !.pc = "cf", !.cf = c[1], !.i = 1]

\* BetaCDF(alpha, beta)(x)
CallBetaCDF ==
    /\ pc = "distribution"
    /\ dist.pc = "call"
    /\ dist.fn = "BetaCDF"
    /\ BetaCDFModelled(dist.alpha, dist.beta, dist.x)
    /\ ReturnOrIterate(ContinuedFraction(dist.alpha, dist.beta, dist.x),
                       BetaCDF(dist.alpha, dist.beta, dist.x))
    /\ UNCHANGED <<controlData, experimentData, confidence, control,
                   experiment, diff, significant, pc, calls, cmd>>

\* the arguments of the BetaCDF that StudentsTCDF(nu)(x) calls, given
\* nx = 1 + (x / nu) * x
PBeta(nu, x, nx) ==
    IF Gt(nu, Mul(x, x))
    THEN [alpha |-> FQ(1, 2), beta |-> Div(nu, F(2)),
          x |-> Div(Mul(x, x), Add(nu, Mul(x, x)))]
    ELSE [alpha |-> Div(nu, F(2)), beta |-> FQ(1, 2), x |-> Div(F(1), nx)]

\* the continued fraction that StudentsTCDF(nu)(x) needs, if any
ContinuedFractionOfT(nx, pbeta) ==
    IF Above1e100(nx) THEN << >>
    ELSE ContinuedFraction(pbeta.alpha, pbeta.beta, pbeta.x)

\* StudentsTCDF(nu)(x)
CallStudentsTCDF ==
    /\ pc = "distribution"
    /\ dist.pc = "call"
    /\ dist.fn = "StudentsTCDF"
    /\ NuModelled(dist.nu)
    /\ IF Le(dist.nu, F(0)) THEN Return(NaN)
       ELSE ReturnOrIterate(
               ContinuedFractionOfT(
                   Add(F(1), Mul(Div(dist.x, dist.nu), dist.x)),
                   PBeta(dist.nu, dist.x,
                         Add(F(1), Mul(Div(dist.x, dist.nu), dist.x)))),
               StudentsTCDF(dist.nu, dist.x))
    /\ UNCHANGED <<controlData, experimentData, confidence, control,
                   experiment, diff, significant, pc, calls, cmd>>

\* the value of the call once its continued fraction has converged
Converged(call) ==
    IF call.fn = "BetaCDF" THEN BetaCDF(call.alpha, call.beta, call.x)
    ELSE StudentsTCDF(call.nu, call.x)

\* one iteration of the loop of betaContinuedFraction: it returns when
\* abs(del - 1.0) < acc, and goes on to i + 1 otherwise
ContinuedFractionStep ==
    /\ dist.pc = "cf"
    /\ dist.i <= maxIter
    /\ \E converged \in BOOLEAN :
          IF converged THEN Return(Converged(dist))
          ELSE dist' = [dist EXCEPT !.i = @ + 1]
    /\ UNCHANGED <<controlData, experimentData, confidence, control,
                   experiment, diff, significant, pc, calls, cmd>>

\* the variant that gives up with the value of the statement that follows
\* the panic
ContinuedFractionGiveUp ==
    /\ dist.pc = "cf"
    /\ dist.i > maxIter
    /\ Return(F(-1))
    /\ UNCHANGED <<controlData, experimentData, confidence, control,
                   experiment, diff, significant, pc, calls, cmd>>

\* the loop has ended without a return: panic
ContinuedFractionPanic ==
    /\ dist.pc = "cf"
    /\ dist.i > maxIter
    /\ dist' = [dist EXCEPT !.pc = "panicked"]
    /\ UNCHANGED <<controlData, experimentData, confidence, control,
                   experiment, diff, significant, pc, calls, cmd>>

\* the variant that panics on the arguments it rejects
CallBetaQtlStrict ==
    /\ pc = "distribution"
    /\ dist.pc = "call"
    /\ dist.fn = "BetaQtl"
    /\ IF \/ Lt(dist.x, F(0)) \/ Gt(dist.x, F(1))
          \/ Lt(dist.alpha, F(0)) \/ Lt(dist.beta, F(0))
       THEN dist' = [dist EXCEPT !.pc = "panicked"]
       ELSE /\ BetaQtlModelled(dist.alpha, dist.beta)
            /\ dist' = [dist EXCEPT !.pc = "bisect"]
    /\ UNCHANGED <<controlData, experimentData, confidence, control,
                   experiment, diff, significant, pc, calls, cmd>>

\* BetaQtl(alpha, beta)(p): the tests of the arguments, then a = 0, b = 1
CallBetaQtl ==
    /\ pc = "distribution"
    /\ dist.pc = "call"
    /\ dist.fn = "BetaQtl"
    /\ IF \/ Lt(dist.x, F(0)) \/ Gt(dist.x, F(1))
          \/ Lt(dist.alpha, F(0)) \/ Lt(dist.beta, F(0))
       THEN Return(NaN)
       ELSE /\ BetaQtlModelled(dist.alpha, dist.beta)
            /\ dist' = [dist EXCEPT !.pc = "bisect"]
    /\ UNCHANGED <<controlData, experimentData, confidence, control,
                   experiment, diff, significant, pc, calls, cmd>>

\* x > t for fractions x and t over powers of two, without a product that
\* leaves the 32-bit integers
DyadicGt(x, t) ==
    IF x.d >= t.d THEN x.n > t.n * (x.d \div t.d)
    ELSE x.n * (t.d \div x.d) > t.n

\* iBr(alpha, beta, x) > p for the regularized incomplete beta function
\* iBr, which is x for the shapes 1 and 1, and sqrt(x) for 1/2 and 1
iBrGreater(alpha, beta, x, p) ==
    CASE alpha = F(1) /\ beta = F(1) -> DyadicGt(x, p)
      [] alpha = FQ(1, 2) /\ beta = F(1) -> DyadicGt(x, RMul(p, p))

\* (b - a) > precision, for a and b over the same power of two
WiderThanPrecision(a, b) ==
    (b.n - a.n) * precision.d > precision.n * a.d

\* (a + b) / 2, for a and b over the same power of two
Midpoint(a, b) ==
    [n |-> a.n + b.n, d |-> 2 * a.d]

\* the same fraction over twice the denominator
Halves(a) ==
    [n |-> 2 * a.n, d |-> 2 * a.d]

\* the variant that keeps a when iBr is not greater than p
BisectStepKeepsLower ==
    /\ dist.pc = "bisect"
    /\ WiderThanPrecision(dist.a, dist.b)
    /\ IF iBrGreater(dist.alpha, dist.beta, Midpoint(dist.a, dist.b),
                     dist.x.c)
       THEN dist' = [dist EXCEPT !.mid = Midpoint(dist.a, dist.b),
                                 !.b = Midpoint(dist.a, dist.b),
                                 !.a = Halves(dist.a)]
       ELSE dist' = [dist EXCEPT !.mid = dist.a]
    /\ UNCHANGED <<controlData, experimentData, confidence, control,
                   experiment, diff, significant, pc, calls, cmd>>

\* one iteration of the bisection: x = (a + b) / 2 replaces b when
\* iBr(alpha, beta, x) > p, and a otherwise
BisectStep ==
    /\ dist.pc = "bisect"
    /\ WiderThanPrecision(dist.a, dist.b)
    /\ IF iBrGreater(dist.alpha, dist.beta, Midpoint(dist.a, dist.b),
                     dist.x.c)
       THEN dist' = [dist EXCEPT !.mid = Midpoint(dist.a, dist.b),
                                 !.b = Midpoint(dist.a, dist.b),
                                 !.a = Halves(dist.a)]
       ELSE dist' = [dist EXCEPT !.mid = Midpoint(dist.a, dist.b),
                                 !.a = Midpoint(dist.a, dist.b),
                                 !.b = Halves(dist.b)]
    /\ UNCHANGED <<controlData, experimentData, confidence, control,
                   experiment, diff, significant, pc, calls, cmd>>

\* the interval is no wider than precision: return x
BisectReturn ==
    /\ dist.pc = "bisect"
    /\ ~WiderThanPrecision(dist.a, dist.b)
    /\ Return(FQ(dist.mid.n, dist.mid.d))
    /\ UNCHANGED <<controlData, experimentData, confidence, control,
                   experiment, diff, significant, pc, calls, cmd>>

\* the degrees of freedom of the usual case, whose q is refined
UsualCase(nu) ==
    nu = F(3)

\* the q of the usual case after steps corrections, a number that the
\* model does not compute
Refined(steps) ==
    [k |-> "q", steps |-> steps]

\* StudentsTQtl(nu)(p): NaN for the arguments it rejects, the closed form
\* for nu = 2, and the loop of the refinement in the usual case
CallStudentsTQtl ==
    /\ pc = "distribution"
    /\ dist.pc = "call"
    /\ dist.fn = "StudentsTQtl"
    /\ IF Le(dist.nu, F(0)) \/ Lt(dist.x, F(0)) \/ Gt(dist.x, F(1))
       THEN Return(NaN)
       ELSE IF UsualCase(dist.nu)
            THEN dist' = [dist EXCEPT !.pc = "refine", !.out = Refined(0)]
            ELSE /\ NuModelled(dist.nu)
                 /\ Return(StudentsTQtl(dist.nu, dist.x))
    /\ UNCHANGED <<controlData, experimentData, confidence, control,
                   experiment, diff, significant, pc, calls, cmd>>

\* what one iteration of the refinement finds: a density y <= 0 at q, a
\* correction x above 1e-14 * abs(q), one within it, or a continued
\* fraction of pt(q) that panics
Findings ==
    {"density", "correction", "within", "panic"}

\* one iteration of the refinement, for it < 10
RefineStep ==
    /\ dist.pc = "refine"
    /\ dist.it < refinements
    /\ \E found \in Findings :
          dist' = CASE found = "density" ->
                         [dist EXCEPT !.pc = "returned"]
                    [] found = "correction" ->
                         [dist EXCEPT !.it = @ + 1, !.within = FALSE,
                                      !.out = Refined(@.steps + 1)]
                    [] found = "within" ->
                         [dist EXCEPT !.it = @ + 1, !.within = TRUE]
                    [] found = "panic" ->
                         [dist EXCEPT !.pc = "panicked", !.out = NoValue]
    /\ UNCHANGED <<controlData, experimentData, confidence, control,
                   experiment, diff, significant, pc, calls, cmd>>

\* the loop has ended: return q
RefineReturn ==
    /\ dist.pc = "refine"
    /\ ~(dist.it < refinements)
    /\ dist' = [dist EXCEPT !.pc = "returned"]
    /\ UNCHANGED <<controlData, experimentData, confidence, control,
                   experiment, diff, significant, pc, calls, cmd>>

NextDistribution ==
    \/ CallBetaCDF
    \/ CallStudentsTCDF
    \/ ContinuedFractionStep
    \/ ContinuedFractionPanic
    \/ CallBetaQtl
    \/ BisectStep
    \/ BisectReturn
    \/ CallStudentsTQtl
    \/ RefineStep
    \/ RefineReturn

SpecDistribution ==
    InitDistribution /\ [][NextDistribution]_vars

\* the steps of the three loops
NextIteration ==
    \/ ContinuedFractionStep
    \/ ContinuedFractionPanic
    \/ BisectStep
    \/ BisectReturn
    \/ RefineStep
    \/ RefineReturn

\* a call that is in a loop goes on running: no step of a loop waits for
\* anything but the step before it
SpecDistributionFair ==
    SpecDistribution /\ WF_vars(NextIteration)

(***************************************************************************)
(* The tinystat command: the control file, then the experiment files.      *)
(***************************************************************************)
\* the most experiment files on a command line
MaxFiles == 2

ControlPath == "iguana"

ExperimentNames == {"chameleon", "leopard"}

Paths == {ControlPath} \cup ExperimentNames

CommandConfidences == {60, 95}

\* a file that cannot be opened, one that is not CSV, and one with a record
\* per measurement
Unreadable ==
    [opens |-> FALSE, csv |-> FALSE, records |-> << >>]

Malformed ==
    [opens |-> TRUE, csv |-> FALSE, records |-> << >>]

CSVFile(records) ==
    [opens |-> TRUE, csv |-> TRUE, records |-> records]

Contents ==
    {Unreadable, Malformed, CSVFile(<<"0", "4">>), CSVFile(<<"13", "17">>),
     CSVFile(<<"4", "x">>)}

ExperimentLists ==
    UNION {[1..n -> ExperimentNames] : n \in 0..MaxFiles}

NewCommand(files, paths, noChart) ==
    [files           |-> files,
     ExperimentPaths |-> paths,
     NoChart         |-> noChart,
     i               |-> 0,
     read            |-> << >>,
     compared        |-> << >>,
     t               |-> << >>,
     stdout          |-> << >>,
     stderr          |-> << >>,
     exited          |-> FALSE,
     code            |-> 0]

InitCommand ==
    /\ controlData = << >>
    /\ experimentData = << >>
    /\ confidence \in CommandConfidences
    /\ control = ZeroSummary
    /\ experiment = ZeroSummary
    /\ diff = NoDiff
    /\ significant = FALSE
    /\ calls = << >>
    /\ dist = NoCall
    /\ pc = "main"
    /\ cmd \in {NewCommand(files, paths, noChart) :
                    files \in [Paths -> Contents],
                    paths \in ExperimentLists,
                    noChart \in BOOLEAN}

\* strconv.ParseFloat on the fields the files of the model hold
ParseFloat(s) ==
    CASE s = "0" -> [n |-> 0, err |-> "none"]
      [] s = "4" -> [n |-> 4, err |-> "none"]
      [] s = "13" -> [n |-> 13, err |-> "none"]
      [] s = "17" -> [n |-> 17, err |-> "none"]
      [] OTHER -> [n |-> 0, err |-> "parse"]

\* the loop over the records: column 0 of each one is parsed
RECURSIVE ParseRecords(_, _, _)
ParseRecords(records, i, data) ==
    IF i > Len(records) THEN [data |-> data, err |-> "none"]
    ELSE LET n == ParseFloat(records[i])
         IN  IF n.err # "none" THEN [data |-> << >>, err |-> n.err]
             ELSE ParseRecords(records, i + 1, Append(data, n.n))

readFile(file) ==
    IF ~file.opens THEN [data |-> << >>, err |-> "open"]
    ELSE IF ~file.csv THEN [data |-> << >>, err |-> "csv"]
    ELSE ParseRecords(file.records, 1, << >>)

\* main after readData returned an error: the error on stderr, os.Exit(-1)
ExitOnError(filename, err) ==
    /\ cmd' = [cmd EXCEPT !.read = Append(@, filename),
                          !.stderr = Append(@, err),
                          !.exited = TRUE,
                          !.code = -1]
    /\ controlData' = << >>
    /\ experimentData' = << >>
    /\ pc' = "exit"

\* readData: the control file is read first
ReadControl ==
    /\ pc = "main"
    /\ LET r == readFile(cmd.files[ControlPath])
       IN  IF r.err # "none" THEN ExitOnError(ControlPath, r.err)
           ELSE /\ controlData' = r.data
                /\ experimentData' = << >>
                /\ cmd' = [cmd EXCEPT !.read = Append(@, ControlPath), !.i = 1]
                /\ pc' = "readData"
    /\ UNCHANGED <<confidence, control, experiment, diff, significant, calls,
                   dist>>

\* the variant with one slice shared by the experiment files
StoreShared(data, filename, expData) ==
    [f \in DOMAIN data \cup {filename} |-> expData]

\* experimentData[filename] = expData
Store(data, filename, expData) ==
    [f \in DOMAIN data \cup {filename} |->
        IF f = filename THEN expData ELSE data[f]]

\* the variant of the loop that skips a file it cannot read
ReadExperimentSkipping ==
    /\ pc = "readData"
    /\ cmd.i <= Len(cmd.ExperimentPaths)
    /\ LET filename == cmd.ExperimentPaths[cmd.i]
           r        == readFile(cmd.files[filename])
       IN  /\ experimentData' = IF r.err # "none" THEN experimentData
                                ELSE Store(experimentData, filename, r.data)
           /\ cmd' = [cmd EXCEPT !.read = Append(@, filename), !.i = @ + 1]
           /\ UNCHANGED <<controlData, pc>>
    /\ UNCHANGED <<confidence, control, experiment, diff, significant, calls,
                   dist>>

\* readData: one iteration of the loop over the experiment files
ReadExperiment ==
    /\ pc = "readData"
    /\ cmd.i <= Len(cmd.ExperimentPaths)
    /\ LET filename == cmd.ExperimentPaths[cmd.i]
           r        == readFile(cmd.files[filename])
       IN  IF r.err # "none" THEN ExitOnError(filename, r.err)
           ELSE /\ experimentData' = Store(experimentData, filename, r.data)
                /\ cmd' = [cmd EXCEPT !.read = Append(@, filename), !.i = @ + 1]
                /\ UNCHANGED <<controlData, pc>>
    /\ UNCHANGED <<confidence, control, experiment, diff, significant, calls,
                   dist>>

\* the box chart: the control, then a box per experiment file
Chart ==
    [kind     |-> "chart",
     Category |-> <<ControlPath>> \o cmd.ExperimentPaths,
     sets     |-> <<controlData>> \o
                  [k \in 1..Len(cmd.ExperimentPaths) |->
                      experimentData[cmd.ExperimentPaths[k]]]]

\* main once readData has returned the data: the chart unless switched off
PrintChart ==
    /\ pc = "readData"
    /\ cmd.i > Len(cmd.ExperimentPaths)
    /\ cmd' = [cmd EXCEPT !.stdout = IF cmd.NoChart THEN @ ELSE Append(@, Chart)]
    /\ pc' = "charted"
    /\ UNCHANGED <<controlData, experimentData, confidence, control,
                   experiment, diff, significant, calls, dist>>

Header ==
    [kind |-> "header"]

ControlRow(summary) ==
    [kind |-> "control", file |-> ControlPath, N |-> summary.N,
     Mean |-> summary.Mean, Variance |-> summary.Variance]

\* the start of printComparison: the header and the row of the control
StartComparison ==
    /\ control' = Summarize(controlData)
    /\ cmd' = [cmd EXCEPT !.t = <<Header, ControlRow(control')>>, !.i = 1]
    /\ pc' = "printComparison"

\* main returns
ReturnMain ==
    /\ cmd' = [cmd EXCEPT !.exited = TRUE, !.code = 0]
    /\ pc' = "exit"

\* the variant of main that prints the table whatever the command line
PrintComparisonUnconditional ==
    /\ pc = "charted"
    /\ StartComparison
    /\ UNCHANGED <<controlData, experimentData, confidence, experiment, diff,
                   significant, calls, dist>>

\* main after the chart: the table when there is an experiment file
PrintComparison ==
    /\ pc = "charted"
    /\ IF Len(cmd.ExperimentPaths) > 0 THEN StartComparison
       ELSE ReturnMain /\ UNCHANGED control
    /\ UNCHANGED <<controlData, experimentData, confidence, experiment, diff,
                   significant, calls, dist>>

ResultRow(filename, summary, d, sig) ==
    [kind |-> "result", file |-> filename, N |-> summary.N,
     Mean |-> summary.Mean, Variance |-> summary.Variance,
     significant |-> sig, CriticalValue |-> d.CriticalValue,
     PValue |-> d.PValue]

\* the variant of the loop that compares with the file before
CompareExperimentWithPrevious ==
    /\ pc = "printComparison"
    /\ cmd.i <= Len(cmd.ExperimentPaths)
    /\ LET filename == cmd.ExperimentPaths[cmd.i]
       IN  /\ experiment' = Summarize(experimentData[filename])
           /\ NuModelled(WelchNu(control, experiment'))
           /\ diff' = [impl |-> "welch",
                       d |-> Compare(control, experiment', F(confidence))]
           /\ significant' = Significant(diff'.d)
           /\ control' = experiment'
           /\ cmd' = [cmd EXCEPT
                        !.compared = Append(@, [control    |-> control,
                                                experiment |-> experiment']),
                        !.t = Append(@, ResultRow(filename, experiment',
                                                  diff'.d, significant')),
                        !.i = @ + 1]
    /\ UNCHANGED <<controlData, experimentData, confidence, pc, calls, dist>>

\* printComparison: one iteration of the loop over the experiment files
CompareExperiment ==
    /\ pc = "printComparison"
    /\ cmd.i <= Len(cmd.ExperimentPaths)
    /\ LET filename == cmd.ExperimentPaths[cmd.i]
       IN  /\ experiment' = Summarize(experimentData[filename])
           /\ NuModelled(WelchNu(control, experiment'))
           /\ diff' = [impl |-> "welch",
                       d |-> Compare(control, experiment', F(confidence))]
           /\ significant' = Significant(diff'.d)
           /\ cmd' = [cmd EXCEPT
                        !.compared = Append(@, [control    |-> control,
                                                experiment |-> experiment']),
                        !.t = Append(@, ResultRow(filename, experiment',
                                                  diff'.d, significant')),
                        !.i = @ + 1]
    /\ UNCHANGED <<controlData, experimentData, confidence, control, pc,
                   calls, dist>>

\* the end of printComparison: the table goes to stdout, main returns
Flush ==
    /\ pc = "printComparison"
    /\ cmd.i > Len(cmd.ExperimentPaths)
    /\ cmd' = [cmd EXCEPT !.stdout = @ \o cmd.t, !.t = << >>,
                          !.exited = TRUE, !.code = 0]
    /\ pc' = "exit"
    /\ UNCHANGED <<controlData, experimentData, confidence, control,
                   experiment, diff, significant, calls, dist>>

NextCommand ==
    \/ ReadControl
    \/ ReadExperiment
    \/ PrintChart
    \/ PrintComparison
    \/ CompareExperiment
    \/ Flush

SpecCommand ==
    InitCommand /\ [][NextCommand]_vars

(***************************************************************************)
(* Properties.                                                             *)
(***************************************************************************)
\* the Difference has been computed and asked whether it is significant
Compared ==
    pc = "done"

\* n >= 2 and variance >= 0
ValidSummary(s) ==
    Ge(s.N, F(2)) /\ Ge(s.Variance, F(0))

ValidConfidence ==
    confidence > 0 /\ confidence < 100

DegenerateSample ==
    Lt(control.N, F(2)) \/ Lt(experiment.N, F(2))

EffectOf(df) ==
    IF df.impl = "welch" THEN df.d.Effect ELSE df.d.Delta

CriticalOf(df) ==
    IF df.impl = "student" THEN df.d.Error ELSE df.d.CriticalValue

\* x > y, stated through trichotomy
StrictlyGreater(x, y) ==
    ~IsNaN(x) /\ ~IsNaN(y) /\ x # y /\ ~Lt(x, y)

\* C1: for summaries with n >= 2 and variance >= 0 and a confidence in
\* (0, 100), the Difference is significant (effect > critical value) exactly
\* when its p-value is below alpha.
C1_VerdictAgreesWithPValue ==
    (/\ Compared
     /\ diff.impl \in {"welch", "welchP"}
     /\ ValidSummary(control) /\ ValidSummary(experiment)
     /\ ValidConfidence)
    => (significant <=> Lt(diff.d.PValue, Alpha(F(confidence))))

\* C2: Significant() is true exactly when the effect is strictly greater
\* than the critical value; when the two are equal it is false.
C2_SignificantIsStrict ==
    Compared =>
        /\ significant <=> StrictlyGreater(EffectOf(diff), CriticalOf(diff))
        /\ EffectOf(diff) = CriticalOf(diff) => ~significant

C2_Witness ==
    /\ Compared
    /\ diff.impl = "welch"
    /\ diff.d.Effect = diff.d.CriticalValue
    /\ Gt(diff.d.Effect, F(0))
    /\ ~significant

\* C3: comparing a valid summary with itself at a confidence in (0, 100)
\* gives effect 0 and is not significant.
C3_IdenticalSampleNull ==
    (/\ Compared
     /\ control = experiment
     /\ ValidSummary(control)
     /\ ValidConfidence)
    => (EffectOf(diff) = F(0) /\ ~significant)

C3_Witness ==
    /\ Compared
    /\ diff.impl = "welch"
    /\ control = experiment
    /\ Gt(control.Variance, F(0))
    /\ ValidConfidence
    /\ Gt(diff.d.CriticalValue, F(0))
    /\ diff.d.Effect = F(0)

\* C4: swapping the two summaries changes neither the effect, nor the
\* critical value, nor the p-value.
C4_Symmetry ==
    /\ (Compared /\ diff.impl = "welch") =>
            LET r == Compare(experiment, control, F(confidence))
            IN  /\ r.Effect = diff.d.Effect
                /\ r.CriticalValue = diff.d.CriticalValue
                /\ r.PValue = diff.d.PValue
    /\ (Compared /\ diff.impl = "welchP") =>
            LET r == CompareP(experiment, control, F(confidence))
            IN  /\ r.Delta = diff.d.Delta
                /\ r.CriticalValue = diff.d.CriticalValue
                /\ r.PValue = diff.d.PValue

C4_Witness ==
    /\ Compared
    /\ diff.impl = "welch"
    /\ control.N # experiment.N
    /\ control.Variance # experiment.Variance
    /\ Gt(diff.d.Effect, F(0))
    /\ IsFin(diff.d.CriticalValue)
    /\ Gt(diff.d.CriticalValue, F(0))

\* the two-pass formulas: sum / n, and the sum of the squared deviations
\* from that mean / (n - 1)
RECURSIVE SumOf(_, _)
SumOf(data, i) ==
    IF i > Len(data) THEN 0 ELSE data[i] + SumOf(data, i + 1)

RECURSIVE SumSqDev(_, _, _)
SumSqDev(data, mean, i) ==
    IF i > Len(data) THEN Zero
    ELSE LET dev == RSub(RInt(data[i]), mean)
         IN  RAdd(RMul(dev, dev), SumSqDev(data, mean, i + 1))

TwoPass(data) ==
    LET mean == Rat(SumOf(data, 1), Len(data))
    IN  [Mean     |-> FRat(mean),
         Variance |-> FRat(RMul(SumSqDev(data, mean, 1),
                                Rat(1, Len(data) - 1))),
         N        |-> F(Len(data))]

\* C5: for a sequence of at least two values Summarize returns the number
\* of values, the arithmetic mean and the Bessel-corrected sample variance
\* of the two-pass formulas.
C5_SummarizeIsTwoPass ==
    /\ (pc # "read" /\ Len(controlData) >= 2) =>
            control = TwoPass(controlData)
    /\ (pc \notin {"read", "control"} /\ Len(experimentData) >= 2) =>
            experiment = TwoPass(experimentData)

C5_Witness ==
    /\ pc = "experiment"
    /\ Len(experimentData) = 3
    /\ Gt(experiment.Variance, F(0))
    /\ experiment.Mean.c.d # 1

C7_ConfidenceValidated ==
    diff # NoDiff => ValidConfidence

\* C7 as amended: Compare does not validate the confidence level; for a
\* confidence of 0 it returns a Difference with alpha 1 and critical value
\* 0 (or NaN), for a confidence of 100 one with alpha 0 and critical value
\* +Inf (or NaN).
C7_ConfidenceNotValidated ==
    /\ (Compared /\ diff.impl = "welch" /\ confidence = 0) =>
            /\ diff.d.Alpha = F(1)
            /\ diff.d.CriticalValue \in {F(0), NaN}
    /\ (Compared /\ diff.impl = "welch" /\ confidence = 100) =>
            /\ diff.d.Alpha = F(0)
            /\ diff.d.CriticalValue \in {posInf, NaN}

C7_Witness ==
    /\ Compared
    /\ diff.impl = "welch"
    /\ confidence = 100
    /\ ValidSummary(control) /\ ValidSummary(experiment)
    /\ diff.d.CriticalValue = posInf
    /\ Gt(diff.d.Effect, F(0))
    /\ ~significant

C9_Ranges ==
    (/\ Compared
     /\ diff.impl = "welch"
     /\ ValidSummary(control) /\ ValidSummary(experiment)
     /\ ValidConfidence)
    => /\ Ge(diff.d.PValue, F(0)) /\ Le(diff.d.PValue, F(1))
       /\ Gt(diff.d.Alpha, F(0)) /\ Lt(diff.d.Alpha, F(1))
       /\ Ge(diff.d.CriticalValue, F(0))

\* the p-value Compare returns for the control, an experiment and a
\* confidence level
PValueBy(impl, e, c) ==
    IF impl = "welch" THEN Compare(control, e, F(c)).PValue
    ELSE CompareP(control, e, F(c)).PValue

\* the experiment with its mean moved m further from the control's
Farther(m) ==
    [experiment EXCEPT !.Mean =
        IF Lt(@, control.Mean) THEN Sub(@, F(m)) ELSE Add(@, F(m))]

\* C10: the p-value is 2 * CDF(-t) for t = effect / standard error: it is
\* 1 when the effect is 0, it decreases when the effect grows with the
\* sample sizes and variances fixed, and it is the same at every
\* confidence level.
C10_PValueOfObservedT ==
    (/\ Compared
     /\ diff.impl \in {"welch", "welchP"}
     /\ ValidSummary(control) /\ ValidSummary(experiment)
     /\ ValidConfidence
     /\ Gt(StdErr(control, experiment), F(0)))
    => LET p  == diff.d.PValue
           nu == WelchNu(control, experiment)
           t  == Div(EffectOf(diff), StdErr(control, experiment))
       IN  /\ p = Mul(F(2), CDF(nu, Neg(t)))
           /\ EffectOf(diff) = F(0) => p = F(1)
           /\ \A m \in 1..2 : Lt(PValueBy(diff.impl, Farther(m), confidence), p)
           /\ \A c \in Confidences :
                (c > 0 /\ c < 100) => PValueBy(diff.impl, experiment, c) = p

\* the Welch-Satterthwaite formula:
\* (Va/na + Vb/nb)^2 / ((Va/na)^2 / (na - 1) + (Vb/nb)^2 / (nb - 1))
WelchSatterthwaite(a, b) ==
    Div(Pow2(Add(Div(a.Variance, a.N), Div(b.Variance, b.N))),
        Add(Div(Pow2(Div(a.Variance, a.N)), Sub(a.N, F(1))),
            Div(Pow2(Div(b.Variance, b.N)), Sub(b.N, F(1)))))

Summarized ==
    pc \notin {"read", "control"}

ValidSummaries ==
    ValidSummary(control) /\ ValidSummary(experiment)

SomeVariance ==
    ~(IsZero(control.Variance) /\ IsZero(experiment.Variance))

\* C11: for sample sizes >= 2 and variances not both zero, the degrees of
\* freedom of the Welch test are those of the Welch-Satterthwaite formula,
\* and the critical value is the t quantile at 1 - alpha / 2 times
\* sqrt(Va/na + Vb/nb).
C11_WelchDegreesOfFreedom ==
    /\ (Summarized /\ ValidSummaries /\ SomeVariance) =>
            WelchNu(control, experiment) = WelchSatterthwaite(control, experiment)
    /\ (Compared /\ diff.impl = "welch" /\ ValidSummaries /\ SomeVariance) =>
            diff.d.CriticalValue =
                Mul(Quantile(WelchSatterthwaite(control, experiment),
                             Sub(F(1), Div(diff.d.Alpha, F(2)))),
                    Sqrt(Add(Div(control.Variance, control.N),
                             Div(experiment.Variance, experiment.N))))

C11_Witness ==
    /\ Compared
    /\ diff.impl = "welch"
    /\ ValidSummaries
    /\ ~IsZero(control.Variance) /\ ~IsZero(experiment.Variance)
    /\ WelchNu(control, experiment) = F(2)
    /\ ValidConfidence
    /\ Gt(diff.d.Effect, F(0))
    /\ IsFin(diff.d.CriticalValue)
    /\ Gt(diff.d.CriticalValue, F(0))

\* C12: in the Differences that carry relative fields, RelDelta is Delta
\* divided by the mean of the control and RelCriticalValue (RelError) is the
\* critical value (Error) divided by the mean of the control, never by the
\* mean of the experiment: |2.5 - 25| / 2.5 is 9.
C12_RelativeToControl ==
    /\ (Compared /\ diff.impl = "welchP") =>
            /\ diff.d.RelDelta = Div(diff.d.Delta, control.Mean)
            /\ diff.d.RelCriticalValue = Div(diff.d.CriticalValue, control.Mean)
    /\ (Compared /\ diff.impl = "student") =>
            /\ diff.d.RelDelta = Div(diff.d.Delta, control.Mean)
            /\ diff.d.RelError = Div(diff.d.Error, control.Mean)
    /\ (Compared /\ diff.impl \in {"welchP", "student"}
            /\ ~IsZero(control.Mean)) =>
            Mul(diff.d.RelDelta, control.Mean) = diff.d.Delta
    /\ Div(Abs(Sub(FQ(5, 2), F(25))), FQ(5, 2)) = F(9)

C12_Witness ==
    /\ Compared
    /\ diff.impl = "student"
    /\ ~IsZero(control.Mean) /\ ~IsZero(experiment.Mean)
    /\ control.Mean # experiment.Mean
    /\ IsFin(diff.d.RelError) /\ Gt(diff.d.RelError, F(0))
    /\ diff.d.RelDelta # Div(diff.d.Delta, experiment.Mean)
    /\ diff.d.RelError # Div(diff.d.Error, experiment.Mean)

\* the pooled variance ((na - 1) * Va + (nb - 1) * Vb) / (na + nb - 2)
PooledVariance(a, b) ==
    Div(Add(Mul(Sub(a.N, F(1)), a.Variance), Mul(Sub(b.N, F(1)), b.Variance)),
        Sub(Add(a.N, b.N), F(2)))

\* C13: the pooled test has na + nb - 2 degrees of freedom, its StdDev is
\* the square root of the pooled variance, and its Error is
\* t * StdDev * sqrt(1/na + 1/nb) for the t quantile at
\* 1 - (1 - confidence/100) / 2.
C13_PooledStudent ==
    (Compared /\ diff.impl = "student") =>
        /\ StudentNu(control, experiment) =
                F(Len(controlData) + Len(experimentData) - 2)
        /\ diff.d.StdDev = Sqrt(PooledVariance(control, experiment))
        /\ ValidSummaries =>
                Pow2(diff.d.StdDev) = PooledVariance(control, experiment)
        /\ diff.d.Error =
                Mul(Mul(Quantile(F(Len(controlData) + Len(experimentData) - 2),
                                 Sub(F(1), Div(Sub(F(1), Div(F(confidence), F(100))),
                                               F(2)))),
                        diff.d.StdDev),
                    Sqrt(Add(Div(F(1), control.N), Div(F(1), experiment.N))))

C13_Witness ==
    /\ Compared
    /\ diff.impl = "student"
    /\ ValidSummaries
    /\ ValidConfidence
    /\ control.Variance # experiment.Variance
    /\ ~IsZero(control.Variance) /\ ~IsZero(experiment.Variance)
    /\ IsFin(diff.d.Error) /\ Gt(diff.d.Error, F(0))
    /\ Gt(diff.d.StdDev, F(0))

\* u < v for two arguments of the unit normal CDF
ArgLt(u, v) ==
    CASE u.k = "nan" \/ v.k = "nan" -> FALSE
      [] u.k = "shifted" /\ v.k = "shifted" -> u.za = v.za /\ Lt(u.x, v.x)
      [] u.k = "shifted" /\ v.k = "inf" -> v.s > 0
      [] u.k = "inf" /\ v.k = "shifted" -> u.s < 0
      [] u.k \in {"fin", "inf"} /\ v.k \in {"fin", "inf"} -> Lt(u, v)

ArgLe(u, v) ==
    ArgLt(u, v) \/ (u.k # "nan" /\ u = v)

\* 0 <= CDF(hi) - CDF(lo) <= 1: the CDF is increasing, with values in [0, 1]
BetaInUnit(beta) ==
    beta.k = "cdfdiff" /\ ArgLe(beta.lo, beta.hi)

\* CDF(x.hi) - CDF(x.lo) < CDF(y.hi) - CDF(y.lo), the CDF strictly increasing
BetaLt(x, y) ==
    /\ x.k = "cdfdiff" /\ y.k = "cdfdiff"
    /\ ArgLe(x.hi, y.hi) /\ ArgLe(y.lo, x.lo)
    /\ ArgLt(x.hi, y.hi) \/ ArgLt(y.lo, x.lo)

\* C14: for valid summaries whose variances are not both zero and a
\* confidence in (0, 100), Beta lies in [0, 1] and does not increase when
\* the effect increases with the sample sizes, the variances and the
\* confidence fixed.
C14_BetaNotIncreasing ==
    (Compared /\ diff.impl = "welch" /\ ValidSummaries /\ SomeVariance
        /\ ValidConfidence) =>
        /\ BetaInUnit(diff.d.Beta)
        /\ \A m \in 1..2 :
              ~BetaLt(diff.d.Beta,
                      Compare(control, Farther(m), F(confidence)).Beta)

(***************************************************************************)
(* C15: any number of Compare calls that share the control Summary may run *)
(* concurrently in any interleaving: each call returns the Difference it   *)
(* returns when it runs alone, and the control Summary keeps the field     *)
(* values it had before the calls.                                         *)
(***************************************************************************)
C15_ConcurrentCompare ==
    pc = "concurrent" =>
        /\ control = Summarize(controlData)
        /\ \A i \in Procs :
              calls[i].pc = "returned" =>
                  calls[i].result = Compare(Summarize(controlData),
                                            calls[i].experiment,
                                            F(confidence))

\* one call has returned a finite critical value while another call, on a
\* different experiment, is between two of its statements
C15_Witness ==
    /\ pc = "concurrent"
    /\ \E i, j \in Procs :
          /\ i # j
          /\ calls[i].pc = "returned"
          /\ IsFin(calls[i].result.CriticalValue)
          /\ Gt(calls[i].result.Effect, F(0))
          /\ calls[j].pc \in {"hypothetical", "experimental"}
          /\ calls[j].experiment # calls[i].experiment

(***************************************************************************)
(* C16: Summarize has no side effects: after Summarize(data) returns, data *)
(* has the same length and the same elements in the same order as before   *)
(* the call.                                                               *)
(***************************************************************************)
C16_SummarizeKeepsData ==
    [][(SummarizeControl \/ SummarizeExperiment) =>
           /\ controlData' = controlData
           /\ experimentData' = experimentData]_vars

\* both samples have been summarized, each with two measurements that
\* differ, the first not zero
C16_Witness ==
    /\ pc = "experiment"
    /\ Len(controlData) >= 2
    /\ controlData[1] # 0
    /\ controlData[1] # controlData[2]
    /\ Len(experimentData) >= 2
    /\ experimentData[1] # experimentData[2]
    /\ control = Summarize(controlData)
    /\ experiment = Summarize(experimentData)

(***************************************************************************)
(* C17: every loop of the distribution routines terminates because it is   *)
(* bounded by a fixed iteration cap: the continued fraction of the         *)
(* incomplete beta function, the bisection of the Beta quantile and the    *)
(* refinement of the Student's t quantile each stop after a bounded number *)
(* of iterations for every input.  The continued fraction runs at most     *)
(* maxIter iterations and the refinement at most 10; the bisection halves  *)
(* an interval of width 1 until it is no wider than 1e-9, which takes 30   *)
(* iterations.                                                             *)
(***************************************************************************)
Finished ==
    dist.pc \in {"returned", "panicked"}

\* 2^k
RECURSIVE TwoTo(_)
TwoTo(k) ==
    IF k = 0 THEN 1 ELSE 2 * TwoTo(k - 1)

WithinCaps ==
    /\ dist.i <= maxIter + 1
    /\ dist.it <= refinements
    /\ dist.a.d <= TwoTo(30)

InLoop ==
    dist.pc \in {"cf", "bisect", "refine"}

C17_LoopsTerminate ==
    InLoop ~> (Finished /\ WithinCaps)

\* a bisection has returned after its 30 iterations, with a quantile that
\* is neither 0 nor 1
C17_Witness ==
    /\ dist.fn = "BetaQtl"
    /\ dist.pc = "returned"
    /\ dist.a.d = TwoTo(30)
    /\ dist.a.n > 0
    /\ dist.b.n < TwoTo(30)
    /\ IsFin(dist.out)

(***************************************************************************)
(* C18: when a bounded iterative routine (the continued fraction or the    *)
(* refinement of the quantile) uses up its iteration budget without        *)
(* reaching its tolerance, the caller receives a NonConvergence failure;   *)
(* the routine never returns a numeric value in that case.                 *)
(***************************************************************************)
\* the continued fraction has run its maxIter iterations without a return
FractionUsedUp ==
    dist.cf # NoArgs /\ dist.i > maxIter

\* the refinement has run its iterations, the last correction still above
\* the tolerance
RefinementUsedUp ==
    dist.it = refinements /\ ~dist.within

C18_NonConvergenceReported ==
    (Finished /\ (FractionUsedUp \/ RefinementUsedUp)) =>
        (dist.pc = "panicked" /\ dist.out = NoValue)

(***************************************************************************)
(* C18, as the code has it: a continued fraction that uses up its maxIter  *)
(* iterations panics, and its caller gets no value; a refinement that uses *)
(* up its iterations returns q as an ordinary number, whether the last     *)
(* correction was within the tolerance or not.                             *)
(***************************************************************************)
C18_PanicOrSilentValue ==
    /\ (Finished /\ FractionUsedUp) =>
           (dist.pc = "panicked" /\ dist.out = NoValue)
    /\ (Finished /\ dist.it = refinements) =>
           (dist.pc = "returned" /\ dist.out.k = "q")

\* the refinement has corrected q ten times, never within the tolerance,
\* and has returned it
C18_Witness ==
    /\ dist.fn = "StudentsTQtl"
    /\ dist.pc = "returned"
    /\ RefinementUsedUp
    /\ dist.out = Refined(refinements)

(***************************************************************************)
(* C19: the Beta CDF returns exactly 0 at x = 0 and exactly 1 at x = 1 for *)
(* all shapes a > 0 and b > 0, and for 0 < x < 1 it evaluates the          *)
(* continued fraction directly when x < (a + 1) / (a + b + 2) and through  *)
(* the symmetry 1 - I_{1-x}(b, a) otherwise.                               *)
(***************************************************************************)
\* BetaCDF(alpha, beta)(x) has been called for shapes above 0
BetaCDFCalled ==
    /\ dist.fn = "BetaCDF"
    /\ dist.pc # "call"
    /\ Gt(dist.alpha, F(0))
    /\ Gt(dist.beta, F(0))

Returned ==
    dist.pc = "returned"

Inside ==
    Gt(dist.x, F(0)) /\ Lt(dist.x, F(1))

BelowSwitch ==
    Lt(dist.x, Div(Add(dist.alpha, F(1)),
                   Add(Add(dist.alpha, dist.beta), F(2))))

\* betaContinuedFraction(alpha, beta, x), and (beta, alpha, 1 - x)
DirectFraction ==
    [fn |-> "direct", alpha |-> dist.alpha, beta |-> dist.beta, x |-> dist.x]

SymmetricFraction ==
    [fn |-> "symmetry", alpha |-> dist.beta, beta |-> dist.alpha,
     x |-> Sub(F(1), dist.x)]

Boundaries ==
    /\ (Returned /\ dist.x = F(0)) => dist.out = F(0)
    /\ (Returned /\ dist.x = F(1)) => dist.out = F(1)

C19_BoundariesAndBranches ==
    BetaCDFCalled =>
        /\ Boundaries
        /\ Inside => dist.cf = IF BelowSwitch THEN DirectFraction
                               ELSE SymmetricFraction

(***************************************************************************)
(* C19, as the code has it: the boundaries are exact for all shapes; for   *)
(* 0 < x < 1 and the shapes a = b = 1 BetaCDF is the uniform CDF and       *)
(* returns x with no continued fraction; for the other shapes it calls the *)
(* continued fraction directly when x < (a + 1) / (a + b + 2) and on       *)
(* (b, a, 1 - x) otherwise, and returns I_x(a, b), or 1 - I_{1-x}(b, a).   *)
(***************************************************************************)
C19_BetaCDFBranches ==
    BetaCDFCalled =>
        /\ Boundaries
        /\ Inside =>
              IF dist.alpha = F(1) /\ dist.beta = F(1)
              THEN /\ dist.cf = NoArgs
                   /\ Returned
                   /\ dist.out = dist.x
              ELSE /\ dist.cf = IF BelowSwitch THEN DirectFraction
                                ELSE SymmetricFraction
                   /\ Returned =>
                         dist.out =
                            IF BelowSwitch
                            THEN RegIncBeta(dist.alpha, dist.beta, dist.x)
                            ELSE Sub(F(1), RegIncBeta(dist.beta, dist.alpha,
                                                       Sub(F(1), dist.x)))

\* a call inside (0, 1) has returned through the symmetry after more than
\* one iteration of the continued fraction
C19_Witness ==
    /\ BetaCDFCalled
    /\ Inside
    /\ Returned
    /\ dist.cf = SymmetricFraction
    /\ dist.i > 1
    /\ dist.out = Sqrt(FQ(3, 4))

(***************************************************************************)
(* C20: a distribution function called with a parameter outside its domain *)
(* (degrees of freedom <= 0, a probability outside [0, 1], a shape <= 0)   *)
(* reports an explicit error to its caller and does not return NaN as an   *)
(* ordinary result.                                                        *)
(***************************************************************************)
\* the call in progress has a parameter outside its domain
OutOfDomain ==
    CASE dist.fn = "StudentsTCDF" -> Le(dist.nu, F(0))
      [] dist.fn = "StudentsTQtl" ->
            Le(dist.nu, F(0)) \/ Lt(dist.x, F(0)) \/ Gt(dist.x, F(1))
      [] dist.fn = "BetaQtl" ->
            \/ Lt(dist.x, F(0)) \/ Gt(dist.x, F(1))
            \/ Le(dist.alpha, F(0)) \/ Le(dist.beta, F(0))
      [] dist.fn = "BetaCDF" -> FALSE

C20_OutOfDomainReported ==
    (dist.pc # "call" /\ OutOfDomain) =>
        (dist.pc = "panicked" /\ dist.out # NaN)

(***************************************************************************)
(* C20, as the code has it: StudentsTCDF for degrees of freedom <= 0,      *)
(* StudentsTQtl for degrees of freedom <= 0 or a probability outside       *)
(* [0, 1], and BetaQtl for a probability outside [0, 1] or a shape below 0 *)
(* return NaN as an ordinary result, before any loop; no error is          *)
(* reported.                                                               *)
(***************************************************************************)
C20_OutOfDomainIsNaN ==
    (dist.pc # "call" /\ OutOfDomain) =>
        /\ dist.pc = "returned"
        /\ dist.out = NaN
        /\ dist.cf = NoArgs
        /\ dist.i = 0
        /\ dist.it = 0
        /\ dist.a.d = 1

\* BetaQtl has returned NaN for a probability of 1/2 and a shape of -1
C20_Witness ==
    /\ dist.fn = "BetaQtl"
    /\ dist.pc = "returned"
    /\ dist.x = FQ(1, 2)
    /\ dist.alpha = F(-1)
    /\ dist.beta = F(1)
    /\ dist.out = NaN

(***************************************************************************)
(* C21: the Student's t quantile is strictly increasing in p for fixed     *)
(* degrees of freedom: for 0 < p1 < p2 < 1 and nu > 0,                     *)
(* quantile(p1, nu) < quantile(p2, nu).  The degrees of freedom are those  *)
(* whose quantile the model computes.                                      *)
(***************************************************************************)
\* StudentsTQtl(nu)(p1) has returned, for 0 < p1 < 1 and nu > 0
QuantileReturned ==
    /\ dist.fn = "StudentsTQtl"
    /\ dist.pc = "returned"
    /\ Gt(dist.nu, F(0))
    /\ NuModelled(dist.nu)
    /\ Gt(dist.x, F(0))
    /\ Lt(dist.x, F(1))

Exited ==
    pc = "exit" /\ cmd.exited

\* main returned: every file was read
Succeeded ==
    Exited /\ cmd.code = 0

ChartPrinted ==
    \E k \in 1..Len(cmd.stdout) : cmd.stdout[k].kind = "chart"

\* a line of the comparison table is on standard output or on its way there
TablePrinted ==
    \/ \E k \in 1..Len(cmd.stdout) : cmd.stdout[k].kind # "chart"
    \/ cmd.t # << >>

\* C23: a run that read its files prints the comparison table exactly when
\* the command line names an experiment file; with the control file alone
\* the output is the box chart (unless it is switched off) and nothing
\* else, and Compare is never called
C23_TableIffExperiments ==
    /\ Succeeded => (TablePrinted <=> Len(cmd.ExperimentPaths) > 0)
    /\ Len(cmd.ExperimentPaths) = 0 =>
          /\ ~TablePrinted
          /\ cmd.compared = << >>
          /\ diff = NoDiff
          /\ (Succeeded /\ ~cmd.NoChart) => cmd.stdout = <<Chart>>

\* the control file alone: the chart, no table, no comparison
C23_Witness ==
    /\ Succeeded
    /\ Len(cmd.ExperimentPaths) = 0
    /\ ~cmd.NoChart
    /\ ChartPrinted
    /\ cmd.stdout = <<Chart>>
    /\ cmd.stdout[1].Category = <<ControlPath>>
    /\ cmd.stdout[1].sets = <<<<0, 4>>>>
    /\ cmd.compared = << >>

\* the measurements a file of the command line holds
DataOf(filename) ==
    readFile(cmd.files[filename]).data

\* the lines written so far, those the tabwriter still holds at the end
Written ==
    cmd.stdout \o cmd.t

IsResult(line) ==
    line.kind = "result"

ResultRows ==
    SelectSeq(Written, IsResult)

\* what precedes the result rows: the chart if any, the header, the control
Preamble ==
    (IF cmd.NoChart THEN << >> ELSE <<Chart>>)
        \o <<Header, ControlRow(Summarize(DataOf(ControlPath)))>>

\* C24: with k experiment files the output is the chart, the head of the
\* table, then exactly one result row per experiment file in the order of
\* the command line; Compare is called once per experiment file, each time
\* with the summary of the control file and the summary of that file
C24_OneRowPerExperiment ==
    LET k == Len(cmd.ExperimentPaths)
    IN  /\ Len(ResultRows) = Len(cmd.compared)
        /\ Len(cmd.compared) <= k
        /\ \A j \in 1..Len(cmd.compared) :
              /\ ResultRows[j].file = cmd.ExperimentPaths[j]
              /\ cmd.compared[j].control = Summarize(DataOf(ControlPath))
              /\ cmd.compared[j].experiment =
                     Summarize(DataOf(cmd.ExperimentPaths[j]))
        /\ ResultRows # << >> => ~(\E j \in 1..Len(cmd.t) : cmd.t[j].kind = "chart")
        /\ (Succeeded /\ k > 0) =>
              /\ Len(ResultRows) = k
              /\ cmd.stdout = Preamble \o ResultRows

\* two experiment files with different measurements, the chart first
C24_Witness ==
    /\ Succeeded
    /\ cmd.ExperimentPaths = <<"leopard", "chameleon">>
    /\ ~cmd.NoChart
    /\ Len(cmd.stdout) = 5
    /\ cmd.stdout[1].kind = "chart"
    /\ cmd.stdout[4].file = "leopard"
    /\ cmd.stdout[5].file = "chameleon"
    /\ DataOf("leopard") = <<13, 17>>
    /\ DataOf("chameleon") = <<0, 4>>
    /\ DataOf(ControlPath) = <<0, 4>>
    /\ cmd.compared[2].control = Summarize(<<0, 4>>)
    /\ cmd.compared[1].experiment = Summarize(<<13, 17>>)

\* the files of the command line, the control first
AllPaths ==
    <<ControlPath>> \o cmd.ExperimentPaths

\* the error readFile returns for a file, "none" when it returns the data
ErrorOf(filename) ==
    readFile(cmd.files[filename]).err

\* C25: the files are read in the order of the command line, the control
\* first, and nothing is written before all of them are read; a file that
\* cannot be opened, decoded or parsed is the last one read, and the run
\* ends there with no chart and no table, the error on standard error and
\* a non-zero exit code
C25_ReadAllBeforeOutput ==
    /\ Len(cmd.read) <= Len(AllPaths)
    /\ cmd.read = SubSeq(AllPaths, 1, Len(cmd.read))
    /\ Written # << >> => cmd.read = AllPaths
    /\ \A j \in 1..Len(cmd.read) :
          ErrorOf(cmd.read[j]) # "none" =>
              /\ j = Len(cmd.read)
              /\ Exited
              /\ cmd.code # 0
              /\ Written = << >>
              /\ cmd.compared = << >>
              /\ cmd.stderr = <<ErrorOf(cmd.read[j])>>
    /\ Succeeded => cmd.stderr = << >> /\ cmd.read = AllPaths

\* the first of two experiment files holds a field that is not a number
C25_Witness ==
    /\ Exited
    /\ cmd.code = -1
    /\ cmd.ExperimentPaths = <<"leopard", "chameleon">>
    /\ cmd.files["leopard"] = CSVFile(<<"4", "x">>)
    /\ ErrorOf(ControlPath) = "none"
    /\ ErrorOf("chameleon") = "none"
    /\ cmd.read = <<ControlPath, "leopard">>
    /\ cmd.stderr = <<"parse">>
    /\ cmd.stdout = << >>

\* the Difference of one experiment file, from the measurements of the
\* control file, those of that file and the confidence level alone
Verdict(controlFile, experimentFile, level) ==
    Compare(Summarize(readFile(controlFile).data),
            Summarize(readFile(experimentFile).data), F(level))

\* C29: the row of an experiment file carries the Difference and the
\* significance that the control measurements, the measurements of that
\* file and the confidence level determine; the other experiment files of
\* the command line, their number and their order play no part
C29_VerdictOfOwnData ==
    \A j \in 1..Len(ResultRows) :
        LET row == ResultRows[j]
            d   == Verdict(cmd.files[ControlPath], cmd.files[row.file],
                           confidence)
        IN  /\ row.significant = Significant(d)
            /\ row.CriticalValue = d.CriticalValue
            /\ row.PValue = d.PValue
            /\ row.Mean = Summarize(DataOf(row.file)).Mean
            /\ (j = Len(ResultRows) /\ pc = "printComparison") => diff.d = d

\* a significant and an insignificant experiment side by side
C29_Witness ==
    /\ Succeeded
    /\ Len(ResultRows) = 2
    /\ ResultRows[1].file = "chameleon"
    /\ ResultRows[2].file = "leopard"
    /\ DataOf("chameleon") # DataOf("leopard")
    /\ ~ResultRows[1].significant
    /\ ResultRows[2].significant
    /\ ResultRows[1].PValue # ResultRows[2].PValue

\* the Welch Difference of the two summaries at another confidence level
AtConfidence(level) ==
    Compare(control, experiment, F(level))

\* C26: a difference that Compare reports as significant at a confidence
\* level is significant at every lower level above 0, and the critical
\* value, where it is a number, does not grow as the level falls
C26_MonotoneInConfidence ==
    (Compared /\ diff.impl = "welch") =>
        \A lower \in Confidences :
            (0 < lower /\ lower < confidence) =>
                /\ significant => Significant(AtConfidence(lower))
                /\ (~IsNaN(diff.d.CriticalValue)
                        /\ ~IsNaN(AtConfidence(lower).CriticalValue)) =>
                      Le(AtConfidence(lower).CriticalValue,
                         diff.d.CriticalValue)

\* significant at 95, hence at 60 with a smaller critical value
C26_Witness ==
    /\ Compared
    /\ diff.impl = "welch"
    /\ confidence = 95
    /\ significant
    /\ IsFin(diff.d.CriticalValue)
    /\ Significant(AtConfidence(60))
    /\ Lt(AtConfidence(60).CriticalValue, diff.d.CriticalValue)
    /\ Gt(AtConfidence(60).CriticalValue, F(0))

\* the smaller of two values
Smaller(x, y) ==
    IF Lt(y, x) THEN y ELSE x

\* C27: for sample sizes >= 2 and variances >= 0 that are not both zero,
\* the degrees of freedom Compare computes for the Welch test lie between
\* min(na - 1, nb - 1) and na + nb - 2 (in the exact arithmetic of the
\* model)
C27_DegreesOfFreedomBounded ==
    (Summarized /\ ValidSummaries /\ SomeVariance) =>
        /\ Le(Smaller(Sub(control.N, F(1)), Sub(experiment.N, F(1))),
              WelchNu(control, experiment))
        /\ Le(WelchNu(control, experiment),
              Sub(Add(control.N, experiment.N), F(2)))

\* samples of sizes 2 and 3 with degrees of freedom strictly between the
\* bounds 1 and 3, and not 2
C27_Witness ==
    /\ Summarized
    /\ control.N = F(2)
    /\ experiment.N = F(3)
    /\ ~IsZero(control.Variance)
    /\ ~IsZero(experiment.Variance)
    /\ Lt(F(1), WelchNu(control, experiment))
    /\ Lt(WelchNu(control, experiment), F(3))
    /\ WelchNu(control, experiment) # F(2)

\* the two summaries have the same size, at least 2, and the same variance
SameSizeAndVariance ==
    /\ Summarized
    /\ ValidSummaries
    /\ Eq(control.N, experiment.N)
    /\ Eq(control.Variance, experiment.Variance)

\* C28: for summaries of the same size and the same variance the Welch
\* test and the pooled Student test agree: the Welch degrees of freedom are
\* na + nb - 2, the Welch standard error is the pooled standard deviation
\* times sqrt(1/na + 1/nb), and the Welch critical value is the Error of
\* the Student test at every confidence level.
C28_WelchAgreesWithStudent ==
    SameSizeAndVariance =>
        /\ WelchNu(control, experiment) = StudentNu(control, experiment)
        /\ StdErr(control, experiment) =
               Mul(Sqrt(PooledVariance(control, experiment)),
                   Sqrt(Add(Div(F(1), control.N), Div(F(1), experiment.N))))
        /\ NuModelled(StudentNu(control, experiment)) =>
               \A c \in Confidences :
                   /\ CompareP(control, experiment, F(c)).CriticalValue =
                          CompareStudent(control, experiment, F(c)).Error
                   /\ Compare(control, experiment, F(c)).CriticalValue =
                          CompareStudent(control, experiment, F(c)).Error

\* C30: for two summaries of size >= 2 with variance 0 and different
\* means, the Welch test reports a significant difference, with a critical
\* value of 0 and an effect > 0.
C30_ZeroVarianceSignificant ==
    (/\ Compared
     /\ diff.impl = "welch"
     /\ ValidSummaries
     /\ ValidConfidence
     /\ IsZero(control.Variance) /\ IsZero(experiment.Variance)
     /\ ~Eq(control.Mean, experiment.Mean))
    => /\ Gt(diff.d.Effect, F(0))
       /\ diff.d.CriticalValue = F(0)
       /\ significant

====
